---- MODULE Spec2Model ----
(***************************************************************************)
(* A model of the mbtiles reader (src/mbtiles.go): the dataset handle, the *)
(* database/sql pool behind it, Open / OpenInMemory / Close and the two    *)
(* read operations ReadTile and ReadMetadata, run by concurrent callers.   *)
(*                                                                         *)
(* Strings whose content the code parses are sequences of one-character    *)
(* strings; the value of a `json` metadata row is a sequence of JSON       *)
(* tokens.  Floats are exact decimals [num, scale] = num / 10^scale.       *)
(***************************************************************************)
EXTENDS Integers, Sequences, FiniteSets, TLC

(***************************************************************************)
(* Bounds of the model.                                                    *)
(***************************************************************************)
\* number of concurrent callers (goroutines) issuing reads on the handle
MaxCalls == 3

(***************************************************************************)
(* strconv.Atoi, strings.Split, strings.TrimSpace, strconv.ParseFloat      *)
(***************************************************************************)
DigitChars == <<"0", "1", "2", "3", "4", "5", "6", "7", "8", "9">>

IsDigit(c) == \E i \in 1..10 : DigitChars[i] = c

DigitVal(c) == (CHOOSE i \in 1..10 : DigitChars[i] = c) - 1

AllDigits(s) == \A i \in 1..Len(s) : IsDigit(s[i])

RECURSIVE DigitsVal(_)
DigitsVal(s) ==
    IF Len(s) = 0 THEN 0
    ELSE 10 * DigitsVal(SubSeq(s, 1, Len(s) - 1)) + DigitVal(s[Len(s)])

\* strconv.Atoi: an optional sign and at least one decimal digit
Atoi(s) ==
    LET signed == Len(s) > 0 /\ s[1] \in {"+", "-"}
        body   == IF signed THEN Tail(s) ELSE s
    IN  IF Len(body) = 0 \/ ~AllDigits(body)
        THEN [ok |-> FALSE, v |-> 0]
        ELSE [ok |-> TRUE,
              v  |-> IF signed /\ s[1] = "-" THEN 0 - DigitsVal(body)
                     ELSE DigitsVal(body)]

RECURSIVE Split(_, _)
Split(s, sep) ==
    IF \A i \in 1..Len(s) : s[i] # sep THEN <<s>>
    ELSE LET i == CHOOSE j \in 1..Len(s) :
                     s[j] = sep /\ \A k \in 1..(j - 1) : s[k] # sep
         IN  <<SubSeq(s, 1, i - 1)>> \o Split(SubSeq(s, i + 1, Len(s)), sep)

RECURSIVE TrimSpace(_)
TrimSpace(s) ==
    IF Len(s) > 0 /\ s[1] = " " THEN TrimSpace(Tail(s))
    ELSE IF Len(s) > 0 /\ s[Len(s)] = " " THEN TrimSpace(SubSeq(s, 1, Len(s) - 1))
    ELSE s

RECURSIVE Pow10(_)
Pow10(n) == IF n = 0 THEN 1 ELSE 10 * Pow10(n - 1)

RECURSIVE Normalize(_)
Normalize(f) ==
    IF f.scale > 0 /\ f.num % 10 = 0
    THEN Normalize([num |-> f.num \div 10, scale |-> f.scale - 1])
    ELSE f

\* strconv.ParseFloat on decimal literals: sign? digits* ("." digits*)? with
\* at least one digit
ParseFloat(s) ==
    LET signed == Len(s) > 0 /\ s[1] \in {"+", "-"}
        body   == IF signed THEN Tail(s) ELSE s
        parts  == Split(body, ".")
        ip     == parts[1]
        fp     == IF Len(parts) = 2 THEN parts[2] ELSE <<>>
        wellFormed == /\ Len(parts) <= 2
                      /\ AllDigits(ip) /\ AllDigits(fp)
                      /\ Len(ip) + Len(fp) > 0
        mag    == DigitsVal(ip) * Pow10(Len(fp)) + DigitsVal(fp)
    IN  IF ~wellFormed THEN [ok |-> FALSE, v |-> [num |-> 0, scale |-> 0]]
        ELSE [ok |-> TRUE,
              v  |-> Normalize([num   |-> IF signed /\ s[1] = "-" THEN 0 - mag ELSE mag,
                                scale |-> Len(fp)])]

RECURSIVE parseFloatsLoop(_, _)
parseFloatsLoop(split, out) ==
    IF Len(split) = 0 THEN [ok |-> TRUE, v |-> out]
    ELSE LET value == ParseFloat(TrimSpace(Head(split)))
         IN  IF ~value.ok THEN [ok |-> FALSE, v |-> out]
             ELSE parseFloatsLoop(Tail(split), Append(out, value.v))

\* parseFloats: the floats of a comma-delimited string and the first error
parseFloats(str) == parseFloatsLoop(Split(str, ","), <<>>)

(***************************************************************************)
(* Tile formats, the byte sniffer and the dimension prober.                *)
(***************************************************************************)
TileFormats == {"UNKNOWN", "GZIP", "PNG", "JPG", "PBF", "WEBP"}

HasPrefix(data, prefix) ==
    Len(data) >= Len(prefix) /\ SubSeq(data, 1, Len(prefix)) = prefix

PNGSignature == <<137, 80, 78, 71, 13, 10, 26, 10>>

JPGSignature == <<255, 216>>

GZIPSignature == <<31, 139>>

RIFFMarker == <<82, 73, 70, 70>>

WEBPMarker == <<87, 69, 66, 80, 86, 80>>

IHDRTag == <<73, 72, 68, 82>>

\* detectTileFormat: [format, err] from the leading bytes of a tile
detectTileFormat(data) ==
    IF Len(data) = 0 THEN [format |-> "UNKNOWN", err |-> FALSE]
    ELSE IF HasPrefix(data, PNGSignature) THEN [format |-> "PNG", err |-> FALSE]
    ELSE IF HasPrefix(data, JPGSignature) THEN [format |-> "JPG", err |-> FALSE]
    ELSE IF HasPrefix(data, GZIPSignature) THEN [format |-> "GZIP", err |-> FALSE]
    ELSE IF /\ HasPrefix(data, RIFFMarker)
            /\ Len(data) >= 14
            /\ SubSeq(data, 9, 14) = WEBPMarker
         THEN [format |-> "WEBP", err |-> FALSE]
    ELSE [format |-> "UNKNOWN", err |-> TRUE]

\* a big-endian 32-bit unsigned integer
Uint32BE(b) == ((b[1] * 256 + b[2]) * 256 + b[3]) * 256 + b[4]

\* detectTileSize: [size, err]; only PNG carries its size at a fixed offset
detectTileSize(format, data) ==
    IF format # "PNG" THEN [size |-> 0, err |-> FALSE]
    ELSE IF Len(data) < 24 THEN [size |-> 0, err |-> TRUE]
    ELSE IF SubSeq(data, 13, 16) # IHDRTag THEN [size |-> 0, err |-> TRUE]
    ELSE [size |-> Uint32BE(SubSeq(data, 17, 20)), err |-> FALSE]

(***************************************************************************)
(* Tiles used by the datasets of the model.                                *)
(***************************************************************************)
PNGHeader(tag, side) ==
    PNGSignature \o <<0, 0, 0, 13>> \o tag
        \o <<0, 0, side \div 256, side % 256>> \o <<0, 0, side \div 256, side % 256>>

TilePNGa == PNGHeader(IHDRTag, 256) \o <<1>>

TilePNGb == PNGHeader(IHDRTag, 256) \o <<2>>

TilePNGBadTag == PNGHeader(<<73, 72, 68, 83>>, 256)

TileJPG == <<255, 216, 255, 7>>

TileGZ == <<31, 139, 8, 0>>

TileWEBP == RIFFMarker \o <<192, 0, 0, 0>> \o WEBPMarker \o <<56>>

TileJunk == <<1, 2, 3>>

(***************************************************************************)
(* JSON texts are token sequences; json.Unmarshal into the metadata map.   *)
(***************************************************************************)
JTok(kind, str, num) == [k |-> kind, s |-> str, n |-> num]

JStr(x) == JTok("str", x, 0)

JNum(i) == JTok("num", "", i)

JP(c) == JTok(c, "", 0)

JNull == JTok("null", "", 0)

IsJSONScalar(t) == t.k \in {"str", "num", "bool", "null"}

\* `{` (string `:` scalar (`,` | `}`))* : a flat JSON object
IsJSONObject(toks) ==
    /\ Len(toks) >= 2
    /\ toks[1].k = "{"
    /\ \/ Len(toks) = 2 /\ toks[2].k = "}"
       \/ /\ Len(toks) % 4 = 1
          /\ \A i \in 0..((Len(toks) - 1) \div 4 - 1) :
                /\ toks[2 + 4 * i].k = "str"
                /\ toks[3 + 4 * i].k = ":"
                /\ IsJSONScalar(toks[4 + 4 * i])
                /\ toks[5 + 4 * i].k = IF 5 + 4 * i = Len(toks) THEN "}" ELSE ","

IsJSONArray(toks) ==
    /\ Len(toks) >= 2
    /\ toks[1].k = "["
    /\ toks[Len(toks)].k = "]"
    /\ \A i \in 2..(Len(toks) - 1) :
          IF i % 2 = 0 THEN IsJSONScalar(toks[i]) ELSE toks[i].k = ","
    /\ Len(toks) = 2 \/ Len(toks) % 2 = 1

\* the kind of the top-level JSON value, "invalid" for a syntax error
JSONKind(toks) ==
    IF Len(toks) = 1 /\ IsJSONScalar(toks[1]) THEN toks[1].k
    ELSE IF IsJSONObject(toks) THEN "object"
    ELSE IF IsJSONArray(toks) THEN "array"
    ELSE "invalid"

(***************************************************************************)
(* The metadata map: map[string]interface{}.  nil is the nil map; values   *)
(* are tagged [t, v].                                                      *)
(***************************************************************************)
EmptyMap == [nil |-> FALSE, kv |-> <<>>]

NilMap == [nil |-> TRUE, kv |-> <<>>]

Has(m, key) == key \in DOMAIN m.kv

MapPut(m, key, val) ==
    [nil |-> FALSE,
     kv  |-> [x \in (DOMAIN m.kv) \cup {key} |-> IF x = key THEN val ELSE m.kv[x]]]

IntVal(i) == [t |-> "int", v |-> i]

FloatsVal(fs) == [t |-> "floats", v |-> fs]

StrVal(s) == [t |-> "str", v |-> s]

JSONVal(tok) == [t |-> "json", v |-> tok]

RECURSIVE mergeMembers(_, _, _)
mergeMembers(toks, i, m) ==
    IF i + 3 > Len(toks) THEN m
    ELSE mergeMembers(toks, i + 4, MapPut(m, toks[i].s, JSONVal(toks[i + 2])))

\* an Unmarshal that puts the object in place of the map
jsonUnmarshalReplace(toks, m) ==
    LET kind == JSONKind(toks)
    IN  IF kind = "object" THEN [err |-> FALSE, m |-> mergeMembers(toks, 2, EmptyMap)]
        ELSE IF kind = "null" THEN [err |-> FALSE, m |-> NilMap]
        ELSE [err |-> TRUE, m |-> m]

\* json.Unmarshal(text, &metadata): an object is merged into the map (a nil
\* map is allocated first), null sets the map to nil, anything else fails
\* and leaves the map alone
jsonUnmarshal(toks, m) ==
    LET kind == JSONKind(toks)
    IN  IF kind = "object" THEN [err |-> FALSE, m |-> mergeMembers(toks, 2, [m EXCEPT !.nil = FALSE])]
        ELSE IF kind = "null" THEN [err |-> FALSE, m |-> NilMap]
        ELSE [err |-> TRUE, m |-> m]

(***************************************************************************)
(* Datasets: the relations of an mbtiles file.                             *)
(***************************************************************************)
TRow(z, x, y, d) == [zoom_level |-> z, tile_column |-> x, tile_row |-> y, tile_data |-> d]

MRow(n, v) == [name |-> n, value |-> v]

RequiredTables == {"tiles", "metadata"}

NameRow == MRow("name", <<"d", "e", "m", "o">>)

BoundsRow == MRow("bounds", <<"-", "1", ".", "0", ",", " ", "2", ".", "5", ",", "3">>)

JSONFooRow == MRow("json", <<JP("{"), JStr("foo"), JP(":"), JStr("bar"), JP("}")>>)

JSONObjRow ==
    MRow("json", <<JP("{"), JStr("name"), JP(":"), JStr("x"), JP(","),
                   JStr("n"), JP(":"), JNum(1), JP("}")>>)

JSONZoomsRow ==
    MRow("json", <<JP("{"), JStr("minzoom"), JP(":"), JNum(1), JP(","),
                   JStr("maxzoom"), JP(":"), JNum(7), JP("}")>>)

Datasets ==
    << \* 1: PNG tiles at zooms 3 and 12, no zoom rows, a json row, an empty value
       [tables |-> RequiredTables,
        tiles  |-> <<TRow(3, 0, 0, TilePNGa), TRow(12, 1, 1, TilePNGb)>>,
        meta   |-> <<NameRow, MRow("description", <<>>), BoundsRow, JSONFooRow>>],
       \* 2: JPG tiles, only minzoom supplied
       [tables |-> RequiredTables,
        tiles  |-> <<TRow(5, 0, 0, TileJPG), TRow(3, 0, 0, TileJPG)>>,
        meta   |-> <<MRow("minzoom", <<"4">>), NameRow>>],
       \* 3: gzipped vector tiles, both zooms supplied
       [tables |-> RequiredTables,
        tiles  |-> <<TRow(3, 0, 0, TileGZ)>>,
        meta   |-> <<MRow("minzoom", <<"0">>), MRow("maxzoom", <<"1", "4">>)>>],
       \* 4: a maxzoom that is no integer
       [tables |-> RequiredTables,
        tiles  |-> <<TRow(3, 0, 0, TileWEBP)>>,
        meta   |-> <<NameRow, MRow("maxzoom", <<"1", "x">>), MRow("minzoom", <<"3">>)>>],
       \* 5: no tile relation
       [tables |-> {"metadata"},
        tiles  |-> <<>>,
        meta   |-> <<NameRow>>],
       \* 6: the first tile has no known signature
       [tables |-> RequiredTables,
        tiles  |-> <<TRow(3, 0, 0, TileJunk), TRow(12, 1, 1, TilePNGa)>>,
        meta   |-> <<NameRow>>],
       \* 7: the first tile is a PNG with a corrupt header chunk
       [tables |-> RequiredTables,
        tiles  |-> <<TRow(3, 0, 0, TilePNGBadTag)>>,
        meta   |-> <<NameRow>>],
       \* 8: an empty tile relation, only maxzoom supplied
       [tables |-> RequiredTables,
        tiles  |-> <<>>,
        meta   |-> <<MRow("maxzoom", <<"9">>)>>],
       \* 9: both zooms supplied by rows, the minimum above the maximum
       [tables |-> RequiredTables,
        tiles  |-> <<TRow(3, 0, 0, TilePNGa)>>,
        meta   |-> <<MRow("minzoom", <<"5">>), MRow("maxzoom", <<"2">>)>>],
       \* 10: a json object that overwrites a key and adds one, between other rows
       [tables |-> RequiredTables,
        tiles  |-> <<TRow(3, 0, 0, TileJPG), TRow(12, 1, 1, TileJPG)>>,
        meta   |-> <<NameRow, MRow("minzoom", <<"4">>), JSONObjRow, MRow("n", <<"9">>)>>],
       \* 11: a json object that supplies both zooms
       [tables |-> RequiredTables,
        tiles  |-> <<TRow(3, 0, 0, TilePNGa)>>,
        meta   |-> <<NameRow, JSONZoomsRow>>],
       \* 12: a json array
       [tables |-> RequiredTables,
        tiles  |-> <<TRow(3, 0, 0, TilePNGa)>>,
        meta   |-> <<NameRow, MRow("json", <<JP("["), JNum(1), JP("]")>>)>>],
       \* 13: a json null as the last row
       [tables |-> RequiredTables,
        tiles  |-> <<TRow(3, 0, 0, TilePNGa)>>,
        meta   |-> <<NameRow, MRow("json", <<JNull>>)>>],
       \* 14: a json null between two json objects
       [tables |-> RequiredTables,
        tiles  |-> <<TRow(3, 0, 0, TilePNGa)>>,
        meta   |-> <<JSONObjRow, MRow("json", <<JNull>>), JSONFooRow>>],
       \* 15: a json string
       [tables |-> RequiredTables,
        tiles  |-> <<TRow(3, 0, 0, TilePNGa)>>,
        meta   |-> <<NameRow, MRow("json", <<JStr("s")>>)>>],
       \* 16: a center whose first component is no float
       [tables |-> RequiredTables,
        tiles  |-> <<TRow(3, 0, 0, TilePNGa)>>,
        meta   |-> <<NameRow, MRow("center", <<"x", ",", "1">>)>>],
       \* 17: bounds whose middle component is no float
       [tables |-> RequiredTables,
        tiles  |-> <<TRow(3, 0, 0, TilePNGa)>>,
        meta   |-> <<MRow("bounds", <<"1", ",", " ", "x", ",", "3">>), NameRow>>],
       \* 18: bounds whose last component is empty, after a center that parses
       [tables |-> RequiredTables,
        tiles  |-> <<TRow(3, 0, 0, TilePNGa)>>,
        meta   |-> <<MRow("center", <<" ", ".", "5", ",", "-", "2", ".", " ">>),
                     MRow("bounds", <<"1", ",", "2", ",">>)>>] >>

EmptyDB == [tables |-> {}, tiles |-> <<>>, meta |-> <<>>]

\* the coordinates callers ask for
Coords == {<<3, 0, 0>>, <<12, 1, 1>>}

(***************************************************************************)
(* The queries of the reader, over the content of a database.              *)
(***************************************************************************)
\* select tile_data from tiles where zoom_level = $1 and tile_column = $2 and tile_row = $3
SelectTile(content, z, x, y) ==
    SelectSeq(content.tiles,
              LAMBDA r : r.zoom_level = z /\ r.tile_column = x /\ r.tile_row = y)

\* select name, value from metadata where value is not ''
SelectMetadata(content) == SelectSeq(content.meta, LAMBDA r : Len(r.value) # 0)

Zooms(content) == {content.tiles[i].zoom_level : i \in 1..Len(content.tiles)}

MinOf(S) == CHOOSE m \in S : \A n \in S : m <= n

MaxOf(S) == CHOOSE m \in S : \A n \in S : m >= n

\* the zoom query with its two columns exchanged
SelectZoomRangeSwapped(content) ==
    IF Zooms(content) = {} THEN [minZoom |-> 0, maxZoom |-> 0]
    ELSE [minZoom |-> MaxOf(Zooms(content)), maxZoom |-> MinOf(Zooms(content))]

\* select min(zoom_level), max(zoom_level) from tiles, scanned into two ints
\* that start at 0 (the NULLs of an empty relation leave them at 0)
SelectZoomRange(content) ==
    IF Zooms(content) = {} THEN [minZoom |-> 0, maxZoom |-> 0]
    ELSE [minZoom |-> MinOf(Zooms(content)), maxZoom |-> MaxOf(Zooms(content))]

\* validateRequiredTables: TRUE when it returns an error
validateRequiredTables(content) ==
    Cardinality(content.tables \cap RequiredTables) < 2

\* a fold that leaves the format as the sniffer gave it
NoFold(format) == format

FoldGZIP(format) == IF format = "GZIP" THEN "PBF" ELSE format

\* getTileFormatAndSize: [format, tilesize, err] from the first tile; sizedAs
\* is the format detectTileSize was called with, "none" if it was not called
getTileFormatAndSize(content) ==
    IF "tiles" \notin content.tables
    THEN [format |-> "UNKNOWN", tilesize |-> 0, err |-> TRUE, sizedAs |-> "none"]
    ELSE LET tileData == IF Len(content.tiles) = 0 THEN <<>>
                         ELSE content.tiles[1].tile_data
             detected == detectTileFormat(tileData)
             format   == FoldGZIP(detected.format)
             size     == detectTileSize(format, tileData)
         IN  IF detected.err
             THEN [format |-> "UNKNOWN", tilesize |-> 0, err |-> TRUE, sizedAs |-> "none"]
             ELSE [format |-> format, tilesize |-> size.size, err |-> size.err,
                   sizedAs |-> format]

(***************************************************************************)
(* ReadMetadata's pass over the rows.  The result is [st, m, rowsOpen]:    *)
(* st is "ok", "err" or "panic" (a write to the nil map); a return from    *)
(* inside the loop leaves the row cursor open.                             *)
(***************************************************************************)
RECURSIVE scanRows(_, _)
scanRows(rows, m) ==
    IF Len(rows) = 0 THEN [st |-> "ok", m |-> m, rowsOpen |-> FALSE]
    ELSE LET name  == Head(rows).name
             value == Head(rows).value
         IN  IF name \in {"maxzoom", "minzoom"} THEN
                 IF m.nil THEN [st |-> "panic", m |-> m, rowsOpen |-> TRUE]
                 ELSE LET a == Atoi(value)
                          n == MapPut(m, name, IntVal(a.v))
                      IN  IF ~a.ok THEN [st |-> "err", m |-> n, rowsOpen |-> TRUE]
                          ELSE scanRows(Tail(rows), n)
             ELSE IF name \in {"bounds", "center"} THEN
                 IF m.nil THEN [st |-> "panic", m |-> m, rowsOpen |-> TRUE]
                 ELSE LET f == parseFloats(value)
                          n == MapPut(m, name, FloatsVal(f.v))
                      IN  IF ~f.ok THEN [st |-> "err", m |-> n, rowsOpen |-> TRUE]
                          ELSE scanRows(Tail(rows), n)
             ELSE IF name = "json" THEN
                 LET j == jsonUnmarshal(value, m)
                 IN  IF j.err THEN [st |-> "err", m |-> j.m, rowsOpen |-> TRUE]
                     ELSE scanRows(Tail(rows), j.m)
             ELSE IF m.nil THEN [st |-> "panic", m |-> m, rowsOpen |-> TRUE]
             ELSE scanRows(Tail(rows), MapPut(m, name, StrVal(value)))

\* a supplement that fills in only the missing key
supplementMissingOnly(content, m) ==
    IF Has(m, "minzoom") /\ Has(m, "maxzoom") THEN [st |-> "ok", m |-> m]
    ELSE IF m.nil THEN [st |-> "panic", m |-> m]
    ELSE LET r  == SelectZoomRange(content)
             lo == IF Has(m, "minzoom") THEN m ELSE MapPut(m, "minzoom", IntVal(r.minZoom))
         IN  [st |-> "ok",
              m  |-> IF Has(m, "maxzoom") THEN lo ELSE MapPut(lo, "maxzoom", IntVal(r.maxZoom))]

\* the supplement of the zoom range after the pass
supplementZooms(content, m) ==
    IF Has(m, "minzoom") /\ Has(m, "maxzoom") THEN [st |-> "ok", m |-> m]
    ELSE IF m.nil THEN [st |-> "panic", m |-> m]
    ELSE LET r == SelectZoomRange(content)
         IN  [st |-> "ok",
              m  |-> MapPut(MapPut(m, "minzoom", IntVal(r.minZoom)),
                            "maxzoom", IntVal(r.maxZoom))]

\* the metadata part of ReadMetadata on a database: [st, m, rowsOpen]
readMetadataRows(content) ==
    LET pass == scanRows(SelectMetadata(content), EmptyMap)
        sup  == supplementZooms(content, pass.m)
    IN  IF pass.st # "ok" THEN pass
        ELSE [st |-> sup.st, m |-> sup.m, rowsOpen |-> FALSE]

(***************************************************************************)
(* State.                                                                  *)
(***************************************************************************)
VARIABLES
    dataset,  \* which of Datasets the file at `path` holds
    fs,       \* the file system at `path`: [exists, journal, modTime]
    eng,      \* the engine connections: id -> [st, src]
    mem,      \* the pages the backup has copied into the in-memory database
    opener,   \* the Open / OpenInMemory call: [pc, kind, more, src, dst, commits, sizedAs, err]
    db,       \* the caller's *MBtiles
    pool,     \* the *sql.DB made by the opener: [kind, closed, freeConn]
    probe,    \* the engine connection of the session the opener still holds
    callers,  \* how many callers read from the handle
    call      \* the callers' reads: caller -> [pc, op, arg, data, con, ret, doc, rowsOpen,
              \* cancelled]

vars == <<dataset, fs, eng, mem, opener, db, pool, probe, callers, call>>

Calls == 1..MaxCalls

EngIds == 1..(MaxCalls + 1)

Pages == {"schema", "tiles", "metadata"}

\* database/sql keeps at most this many idle connections unless told otherwise
defaultMaxIdleConns == 2

NoEng == [st |-> "none", src |-> "none"]

NilHandle ==
    [nil |-> TRUE, filename |-> "", pool |-> "nil", format |-> "UNKNOWN",
     timestamp |-> 0, tilesize |-> 0]

\* the zero value MBtiles{}
ZeroHandle == [NilHandle EXCEPT !.nil = FALSE]

NoPool == [kind |-> "none", closed |-> FALSE, freeConn |-> <<>>]

IdleOpener == [pc |-> "idle", kind |-> "none", more |-> FALSE, src |-> 0, dst |-> 0,
               commits |-> 0, sizedAs |-> "none", err |-> "none"]

IdleCall == [pc |-> "idle", op |-> "none", arg |-> <<0, 0, 0>>, data |-> <<>>,
             con |-> 0, ret |-> "none", doc |-> NilMap, rowsOpen |-> FALSE,
             cancelled |-> FALSE]

\* the datasets on which concurrent callers are explored
ConcurrentDatasets == {1}

InitWith(datasets, n) ==
    /\ dataset \in datasets
    /\ callers = n
    /\ fs \in {[exists |-> TRUE, journal |-> FALSE, modTime |-> 1],
               [exists |-> TRUE, journal |-> TRUE, modTime |-> 1],
               [exists |-> FALSE, journal |-> FALSE, modTime |-> 0]}
    /\ eng = [e \in EngIds |-> NoEng]
    /\ mem = {}
    /\ opener = IdleOpener
    /\ db \in {NilHandle, ZeroHandle}
    /\ pool = NoPool
    /\ probe = 0
    /\ call = [c \in Calls |-> IdleCall]

\* one caller, every dataset
Init == InitWith(1..Len(Datasets), 1)

\* MaxCalls concurrent callers
InitConcurrent == InitWith(ConcurrentDatasets, MaxCalls)

(***************************************************************************)
(* The engine.                                                             *)
(***************************************************************************)
\* the content of the in-memory database: the pages copied so far
MemContent ==
    LET ds == Datasets[dataset]
    IN  [tables |-> IF "schema" \in mem THEN ds.tables ELSE {},
         tiles  |-> IF "tiles" \in mem THEN ds.tiles ELSE <<>>,
         meta   |-> IF "metadata" \in mem THEN ds.meta ELSE <<>>]

\* the database an engine connection reads
Content(e) ==
    IF eng[e].src = "file" THEN Datasets[dataset]
    ELSE IF eng[e].src = "mem" THEN MemContent
    ELSE EmptyDB

FreshEng == CHOOSE e \in EngIds : eng[e].st = "none" /\ \A f \in EngIds : eng[f].st = "none" => e <= f

\* the engine opens the file at `path`, creating an empty one if it is gone
OpenedFile == [st |-> "open", src |-> IF fs.exists THEN "file" ELSE "empty"]

\* driver.Conn.Close: a connection of the file is forgotten, the in-memory
\* database dies with its only connection
ClosedEng(e) == IF eng[e].src = "mem" THEN [eng[e] EXCEPT !.st = "closed"] ELSE NoEng

\* a getModTime that does not look for the journal
getModTimeNoJournal == IF ~fs.exists THEN "errPath" ELSE "ok"

\* getModTime: "ok" or the error
getModTime ==
    IF ~fs.exists THEN "errPath"
    ELSE IF fs.journal THEN "errJournal"
    ELSE "ok"

(***************************************************************************)
(* Open                                                                    *)
(***************************************************************************)
Open ==
    /\ opener.pc = "idle"
    /\ \A c \in Calls : call[c].pc = "idle"
    /\ UNCHANGED <<dataset, fs, mem, callers, call>>
    /\ IF getModTime # "ok"
       THEN /\ opener' = [opener EXCEPT !.pc = "returned", !.kind = "Open", !.err = getModTime]
            /\ db' = NilHandle
            /\ UNCHANGED <<eng, pool, probe>>
       ELSE LET con     == FreshEng
                content == Datasets[dataset]
                probed  == getTileFormatAndSize(content)
                failed  == IF validateRequiredTables(content) THEN "errSchema"
                           ELSE IF probed.err THEN "errFormat"
                           ELSE "none"
            IN  /\ eng' = [eng EXCEPT ![con] = OpenedFile]
                /\ pool' = [kind |-> "file", closed |-> FALSE, freeConn |-> <<>>]
                /\ probe' = con
                /\ opener' = [opener EXCEPT !.pc = "returned", !.kind = "Open", !.err = failed,
                                            !.sizedAs = IF validateRequiredTables(content)
                                                        THEN "none" ELSE probed.sizedAs]
                /\ db' = IF failed # "none" THEN NilHandle
                         ELSE [nil       |-> FALSE,
                               filename  |-> "path",
                               pool      |-> "pool",
                               format    |-> probed.format,
                               timestamp |-> fs.modTime,
                               tilesize  |-> probed.tilesize]

(***************************************************************************)
(* OpenInMemory                                                            *)
(***************************************************************************)
\* the deferred srcConn.Close() and db.Close() of OpenInMemory
CloseSource(engs) == [engs EXCEPT ![opener.src] = NoEng]

\* getModTime, sql.Open, db.Conn, srcConn.Raw, driver.NewBackup
OpenInMemoryBegin ==
    /\ opener.pc = "idle"
    /\ \A c \in Calls : call[c].pc = "idle"
    /\ UNCHANGED <<dataset, fs, mem, callers, call, pool, probe>>
    /\ IF getModTime # "ok"
       THEN /\ opener' = [opener EXCEPT !.pc = "returned", !.kind = "OpenInMemory",
                                        !.err = getModTime]
            /\ db' = NilHandle
            /\ UNCHANGED eng
       ELSE LET srcConn == FreshEng
                dst     == CHOOSE e \in EngIds \ {srcConn} : eng[e].st = "none"
            IN  \/ /\ eng' = [eng EXCEPT ![srcConn] = OpenedFile,
                                         ![dst] = [st |-> "open", src |-> "mem"]]
                   /\ opener' = [opener EXCEPT !.pc = "backup", !.kind = "OpenInMemory",
                                               !.more = TRUE, !.src = srcConn, !.dst = dst]
                   /\ UNCHANGED db
                \/ \* the driver connection is no backupCloser, or NewBackup fails;
                   \* the deferred calls close srcConn again
                   \E failed \in {"errCapability", "errBackup"} :
                       /\ opener' = [opener EXCEPT !.pc = "returned", !.kind = "OpenInMemory",
                                                   !.err = failed]
                       /\ db' = NilHandle
                       /\ UNCHANGED eng

\* bck.Step(-1): copies pages and reports whether more remain, or fails
OpenInMemoryStep ==
    /\ opener.pc = "backup"
    /\ opener.more
    /\ UNCHANGED <<dataset, fs, callers, call, pool, probe>>
    /\ \/ \E copied \in (SUBSET (Pages \ mem)) \ {{}} :
            /\ mem' = mem \cup copied
            /\ opener' = [opener EXCEPT !.more = (mem \cup copied # Pages)]
            /\ UNCHANGED <<eng, db>>
       \/ /\ opener' = [opener EXCEPT !.pc = "returned", !.err = "errStep"]
          /\ eng' = CloseSource(eng)
          /\ db' = NilHandle
          /\ UNCHANGED mem

\* a commit that does not wait for the copy to report completion
OpenInMemoryCommitEarly ==
    /\ opener.pc = "backup"
    /\ UNCHANGED <<dataset, fs, callers, call, mem, probe>>
    /\ \/ /\ opener' = [opener EXCEPT !.pc = "committed", !.commits = opener.commits + 1]
          /\ pool' = [kind |-> "mem", closed |-> FALSE, freeConn |-> <<>>]
          /\ UNCHANGED <<eng, db>>
       \/ /\ opener' = [opener EXCEPT !.pc = "returned", !.err = "errCommit",
                                      !.commits = opener.commits + 1]
          /\ eng' = CloseSource(eng)
          /\ db' = NilHandle
          /\ UNCHANGED pool

\* bck.Commit() and sql.OpenDB(newsqliteConnection(conn, db.Driver())); the
\* opener counts its calls of bck.Commit
OpenInMemoryCommit ==
    /\ opener.pc = "backup"
    /\ ~opener.more
    /\ UNCHANGED <<dataset, fs, callers, call, mem, probe>>
    /\ \/ /\ opener' = [opener EXCEPT !.pc = "committed", !.commits = opener.commits + 1]
          /\ pool' = [kind |-> "mem", closed |-> FALSE, freeConn |-> <<>>]
          /\ UNCHANGED <<eng, db>>
       \/ /\ opener' = [opener EXCEPT !.pc = "returned", !.err = "errCommit",
                                      !.commits = opener.commits + 1]
          /\ eng' = CloseSource(eng)
          /\ db' = NilHandle
          /\ UNCHANGED pool

\* sqliteConnection.Connect: the one connection the backup returned
Connect == opener.dst

\* inMemDB.Conn, validateRequiredTables, getTileFormatAndSize and the return
OpenInMemoryValidate ==
    /\ opener.pc = "committed"
    /\ UNCHANGED <<dataset, fs, callers, call, mem, pool>>
    /\ LET dstConn == Connect
           content == Content(dstConn)
           probed  == getTileFormatAndSize(content)
           failed  == IF validateRequiredTables(content) THEN "errSchema"
                      ELSE IF probed.err THEN "errFormat"
                      ELSE "none"
       IN  /\ probe' = dstConn
           /\ eng' = CloseSource(eng)
           /\ opener' = [opener EXCEPT !.pc = "returned", !.err = failed,
                                       !.sizedAs = IF validateRequiredTables(content)
                                                   THEN "none" ELSE probed.sizedAs]
           /\ db' = IF failed # "none" THEN NilHandle
                    ELSE [nil       |-> FALSE,
                          filename  |-> "file::mem:?mode=memory",
                          pool      |-> "pool",
                          format    |-> probed.format,
                          timestamp |-> fs.modTime,
                          tilesize  |-> probed.tilesize]

(***************************************************************************)
(* The pool: sql.DB.Conn, the release of a session, sql.DB.Close           *)
(***************************************************************************)
RemoveAt(q, i) == SubSeq(q, 1, i - 1) \o SubSeq(q, i + 1, Len(q))

\* a panic that left its call ends the process
Crashed == \E c \in Calls : call[c].pc = "idle" /\ call[c].ret = "panic"

\* the engine connections on which a session is checked out
InFlight == {c \in Calls : call[c].con # 0}

\* putConn: the connection goes back to the idle list, or is closed when the
\* pool is closed or the list is full
putConn(ci) ==
    IF ~pool.closed /\ defaultMaxIdleConns > Len(pool.freeConn)
    THEN /\ pool' = [pool EXCEPT !.freeConn = Append(pool.freeConn, ci)]
         /\ UNCHANGED eng
    ELSE /\ eng' = [eng EXCEPT ![ci] = ClosedEng(ci)]
         /\ UNCHANGED pool

(***************************************************************************)
(* ReadTile and ReadMetadata: the call up to getConnection, the query, and *)
(* the deferred calls that end it.                                         *)
(***************************************************************************)
\* the entry of ReadTile / ReadMetadata and db.getConnection.  `cancel`: the
\* caller's cancellation signal fires during the call; the reads take no
\* context and run under context.TODO(), so nothing below looks at it
Begin(c, o, a, reuse, cancel) ==
    /\ ~Crashed
    /\ c <= callers
    /\ reuse => callers = 1  \* concurrent callers bring a fresh buffer each
    /\ cancel => callers = 1  \* the signal is followed for the single caller
    /\ opener.pc \in {"idle", "returned"}
    /\ call[c].pc = "idle"
    /\ UNCHANGED <<dataset, fs, mem, opener, db, probe, callers>>
    /\ LET started == [IdleCall EXCEPT !.op = o, !.arg = a, !.cancelled = cancel,
                                       !.data = IF reuse THEN call[c].data ELSE <<>>]
       IN  IF db.nil \/ db.pool = "nil"
           THEN /\ call' = [call EXCEPT ![c] = [started EXCEPT !.pc = "defer", !.ret = "errClosed"]]
                /\ UNCHANGED <<eng, pool>>
           ELSE IF pool.closed
           THEN \* con == nil, and the deferred closeConnection(con) dereferences it
                /\ call' = [call EXCEPT ![c] = [started EXCEPT !.pc = "defer", !.ret = "panic"]]
                /\ UNCHANGED <<eng, pool>>
           ELSE IF Len(pool.freeConn) > 0
           THEN \E i \in 1..Len(pool.freeConn) :
                   /\ call' = [call EXCEPT ![c] = [started EXCEPT !.pc = "acquired",
                                                                  !.con = pool.freeConn[i]]]
                   /\ pool' = [pool EXCEPT !.freeConn = RemoveAt(pool.freeConn, i)]
                   /\ UNCHANGED eng
           ELSE IF pool.kind = "mem"
           THEN /\ call' = [call EXCEPT ![c] = [started EXCEPT !.pc = "acquired",
                                                               !.con = Connect]]
                /\ UNCHANGED <<eng, pool>>
           ELSE /\ call' = [call EXCEPT ![c] = [started EXCEPT !.pc = "acquired",
                                                               !.con = FreshEng]]
                /\ eng' = [eng EXCEPT ![FreshEng] = OpenedFile]
                /\ UNCHANGED pool

\* ReadTile from PrepareContext to its return statement
readTileQuery(cl, content, fault) ==
    LET rows == SelectTile(content, cl.arg[1], cl.arg[2], cl.arg[3])
    IN  IF fault \/ "tiles" \notin content.tables
        THEN [cl EXCEPT !.pc = "defer", !.ret = "errEngine"]
        ELSE IF Len(rows) = 0
        THEN [cl EXCEPT !.pc = "defer", !.ret = "ok"]
        ELSE [cl EXCEPT !.pc = "defer", !.ret = "ok", !.data = rows[1].tile_data]

\* ReadMetadata from PrepareContext to its return statement
readMetadataQuery(cl, content, fault) ==
    LET r == readMetadataRows(content)
    IN  IF fault \/ ~(RequiredTables \subseteq content.tables)
        THEN [cl EXCEPT !.pc = "defer", !.ret = "errEngine"]
        ELSE IF r.st = "ok"
        THEN [cl EXCEPT !.pc = "defer", !.ret = "ok", !.doc = r.m]
        ELSE [cl EXCEPT !.pc = "defer", !.rowsOpen = r.rowsOpen,
                        !.ret = IF r.st = "err" THEN "errParse" ELSE "panic"]

\* the statements between getConnection and the return statement; `fault`
\* is an error of the engine in PrepareContext or the query
Query(c, fault) ==
    /\ ~Crashed
    /\ call[c].pc = "acquired"
    /\ UNCHANGED <<dataset, fs, mem, opener, db, probe, callers, eng, pool>>
    /\ IF eng[call[c].con].st # "open"
       THEN \* the engine connection was closed under the session
            \E r \in {"errConn", "panic"} :
                call' = [call EXCEPT ![c] = [@ EXCEPT !.pc = "defer", !.ret = r]]
       ELSE call' = [call EXCEPT ![c] =
                        IF @.op = "ReadTile"
                        THEN readTileQuery(@, Content(@.con), fault)
                        ELSE readMetadataQuery(@, Content(@.con), fault)]

\* the deferred query.Close() and db.closeConnection(con): con.Close() waits
\* for the row cursors opened on the session to be closed
Return(c) ==
    /\ ~Crashed
    /\ call[c].pc = "defer"
    /\ ~call[c].rowsOpen
    /\ UNCHANGED <<dataset, fs, mem, opener, db, probe, callers>>
    /\ call' = [call EXCEPT ![c] =
                    IF call[c].ret = "panic" THEN [call[c] EXCEPT !.pc = "idle", !.con = 0]
                    ELSE [IdleCall EXCEPT !.data = call[c].data]]
    /\ IF call[c].con = 0 THEN UNCHANGED <<eng, pool>> ELSE putConn(call[c].con)

(***************************************************************************)
(* Close                                                                   *)
(***************************************************************************)
RECURSIVE closeAll(_, _)
closeAll(free, engs) ==
    IF Len(free) = 0 THEN engs
    ELSE closeAll(Tail(free), [engs EXCEPT ![Head(free)] =
                                   IF engs[Head(free)].src = "mem"
                                   THEN [engs[Head(free)] EXCEPT !.st = "closed"]
                                   ELSE NoEng])

\* MBtiles.Close: db.pool.Close() closes the idle connections of the pool
Close ==
    /\ ~Crashed
    /\ opener.pc = "returned"
    /\ ~db.nil
    /\ UNCHANGED <<dataset, fs, mem, opener, db, probe, callers, call>>
    /\ IF db.pool = "nil" \/ pool.closed
       THEN UNCHANGED <<eng, pool>>
       ELSE /\ eng' = closeAll(pool.freeConn, eng)
            /\ pool' = [pool EXCEPT !.closed = TRUE, !.freeConn = <<>>]

(***************************************************************************)
(* The environment: the source file is deleted once it has been cloned.    *)
(***************************************************************************)
DeleteFile ==
    /\ opener.pc = "returned"
    /\ opener.err = "none"
    /\ pool.kind = "mem"
    /\ fs.exists
    /\ fs' = [fs EXCEPT !.exists = FALSE]
    /\ UNCHANGED <<dataset, eng, mem, opener, db, pool, probe, callers, call>>

Next ==
    \/ Open
    \/ OpenInMemoryBegin
    \/ OpenInMemoryStep
    \/ OpenInMemoryCommit
    \/ OpenInMemoryValidate
    \/ \E c \in Calls, o \in {"ReadTile", "ReadMetadata"}, a \in Coords,
          reuse \in BOOLEAN, cancel \in BOOLEAN :
          Begin(c, o, a, reuse, cancel)
    \/ \E c \in Calls, fault \in BOOLEAN : Query(c, fault)
    \/ \E c \in Calls : Return(c)
    \/ Close
    \/ DeleteFile

Spec == Init /\ [][Next]_vars

SpecConcurrent == InitConcurrent /\ [][Next]_vars

\* a goroutine that can take its next step takes it: the deferred calls of
\* a read at its return statement run when they are not blocked
Fairness == \A c \in Calls : WF_vars(Return(c))

SpecLive == Init /\ [][Next]_vars /\ Fairness

(***************************************************************************)
(* Properties.                                                             *)
(***************************************************************************)
\* the handle is unopened (nil or the zero value) or Close has been called
HandleClosed == db.nil \/ db.pool = "nil" \/ pool.closed

\* caller c is at the return statement of a read (its results are set)
Returning(c) == call[c].pc = "defer"

\* the bytes the tile relation of the file stores at a coordinate, nil if none
StoredBytes(a) ==
    LET rows == SelectTile(Datasets[dataset], a[1], a[2], a[3])
    IN  IF Len(rows) = 0 THEN <<>> ELSE rows[1].tile_data

OpenEngines == {e \in EngIds : eng[e].st = "open"}

\* C1: a read on an unopened or closed handle returns the closed-handle
\* error, with no document, and does not panic.
C1_ClosedHandleError ==
    \A c \in Calls :
        (HandleClosed /\ Returning(c) /\ call[c].con = 0)
            => (call[c].ret = "errClosed" /\ call[c].doc = NilMap)

\* C2: ReadTile of a coordinate with no row returns no error and leaves the
\* caller's buffer nil, whatever it held before.
C2_AbsentTileIsNil ==
    \A c \in Calls :
        (/\ Returning(c)
         /\ call[c].op = "ReadTile"
         /\ call[c].con # 0
         /\ call[c].ret = "ok"
         /\ Len(SelectTile(Content(call[c].con), call[c].arg[1], call[c].arg[2],
                           call[c].arg[3])) = 0)
            => call[c].data = <<>>

\* C3: on every exit path of a read that acquired a session, the row cursor
\* is closed when the deferred release runs, so the release completes and
\* the session is back in the pool when the call returns.
C3_ReleasedOnEveryExit ==
    \A c \in Calls :
        /\ (Returning(c) /\ call[c].con # 0) => ~call[c].rowsOpen
        /\ call[c].pc = "idle" => call[c].con = 0

\* C4: no two sessions that are checked out (by in-flight reads, or by the
\* opener) use the same engine connection.
C4_OwnEngineConnection ==
    /\ \A c, d \in InFlight : c # d => call[c].con # call[d].con
    /\ \A c \in InFlight : call[c].con # probe

\* C5: every ReadTile on an open handle, with the engine reporting no error
\* of its own, returns no error and the bytes stored for its coordinate.
C5_ConcurrentReadsSucceed ==
    \A c \in Calls :
        (/\ Returning(c)
         /\ call[c].op = "ReadTile"
         /\ call[c].con # 0
         /\ ~pool.closed
         /\ call[c].ret # "errEngine")
            => (call[c].ret = "ok" /\ call[c].data = StoredBytes(call[c].arg))

\* C6: an in-memory handle has the format and tile size Open detects on the
\* file, and its reads return what the file holds, also once the file is gone.
C6_InMemoryEqualsFile ==
    (pool.kind = "mem" /\ db.pool = "pool" /\ ~pool.closed) =>
        /\ db.format = getTileFormatAndSize(Datasets[dataset]).format
        /\ db.tilesize = getTileFormatAndSize(Datasets[dataset]).tilesize
        /\ \A c \in Calls :
              (Returning(c) /\ call[c].con # 0 /\ call[c].ret \notin {"errEngine", "errParse"})
                  => /\ call[c].ret = "ok"
                     /\ (call[c].op = "ReadTile" /\ StoredBytes(call[c].arg) # <<>>)
                            => call[c].data = StoredBytes(call[c].arg)
                     /\ call[c].op = "ReadMetadata" =>
                            call[c].doc = readMetadataRows(Datasets[dataset]).m

\* C7: when Open or OpenInMemory fails in validation or detection, no handle
\* is returned and no engine connection is left open.
C7_FailedOpenReleases ==
    (opener.pc = "returned" /\ opener.err \in {"errSchema", "errFormat"})
        => (db.nil /\ OpenEngines = {})

\* C8: after Close, with no read in flight, no engine connection opened
\* through the pool is still open.
C8_CloseReleasesAll ==
    (pool.closed /\ InFlight = {}) => OpenEngines = {}

\* the pool can still serve reads: it is open and its connector and idle
\* connections lead to open engine connections
Usable ==
    /\ ~HandleClosed
    /\ \A i \in 1..Len(pool.freeConn) : eng[pool.freeConn[i]].st = "open"
    /\ pool.kind = "mem" => eng[Connect].st = "open"

\* C9: a read leaves the handle as it was, and the return of a failed read
\* leaves a usable handle usable.
C9_FailedReadKeepsHandle ==
    [][\A c \in Calls :
          (/\ call[c].pc = "defer"
           /\ call'[c].pc = "idle"
           /\ call[c].ret \in {"errEngine", "errParse", "errClosed"})
              => (db' = db /\ (Usable => Usable'))]_vars

\* the document ReadMetadata has built when the rows are processed
AfterRows(content) == scanRows(SelectMetadata(content), EmptyMap).m

\* C10: unless the rows supply both minzoom and maxzoom, both are set to the
\* zoom range of the tile relation, also when one was supplied; if both are
\* supplied they are kept.  Zooms [3, 12] and no zoom rows give 3 and 12.
C10_ZoomSupplement ==
    \A c \in Calls :
        (Returning(c) /\ call[c].op = "ReadMetadata" /\ call[c].ret = "ok") =>
            LET content == Content(call[c].con)
                rows    == AfterRows(content)
                doc     == call[c].doc
            IN  /\ Has(doc, "minzoom") /\ Has(doc, "maxzoom")
                /\ IF Has(rows, "minzoom") /\ Has(rows, "maxzoom")
                   THEN /\ doc.kv["minzoom"] = rows.kv["minzoom"]
                        /\ doc.kv["maxzoom"] = rows.kv["maxzoom"]
                   ELSE /\ doc.kv["minzoom"].t = "int"
                        /\ doc.kv["maxzoom"].t = "int"
                        /\ Zooms(content) # {} =>
                              /\ doc.kv["minzoom"].v = MinOf(Zooms(content))
                              /\ doc.kv["maxzoom"].v = MaxOf(Zooms(content))
                /\ (/\ Zooms(content) # {}
                    /\ MinOf(Zooms(content) \cup {3}) = 3
                    /\ MaxOf(Zooms(content) \cup {12}) = 12
                    /\ {3, 12} \subseteq Zooms(content)
                    /\ ~Has(rows, "minzoom") /\ ~Has(rows, "maxzoom"))
                      => (doc.kv["minzoom"].v = 3 /\ doc.kv["maxzoom"].v = 12)

\* a ReadMetadata that succeeded on rows supplying exactly one of the keys
C10_Witness ==
    \E c \in Calls :
        /\ Returning(c) /\ call[c].op = "ReadMetadata" /\ call[c].ret = "ok"
        /\ Has(AfterRows(Content(call[c].con)), "minzoom")
        /\ ~Has(AfterRows(Content(call[c].con)), "maxzoom")
        /\ Zooms(Content(call[c].con)) # {}

\* a ReadMetadata at its return statement, returning a document and no error
ReturnsDocument(c) ==
    Returning(c) /\ call[c].op = "ReadMetadata" /\ call[c].ret = "ok"

\* a zoom value that is a number: an int of a zoom row or of the supplement,
\* or a number of a json object
IsNumber(val) == val.t = "int" \/ (val.t = "json" /\ val.v.k = "num")

NumberOf(val) == IF val.t = "int" THEN val.v ELSE val.v.n

\* C11 as claimed: every document returned without error holds minzoom and
\* maxzoom, and minzoom <= maxzoom, whatever the rows and the tiles are.
C11_ZoomsOrdered ==
    \A c \in Calls :
        ReturnsDocument(c) =>
            /\ Has(call[c].doc, "minzoom") /\ Has(call[c].doc, "maxzoom")
            /\ IsNumber(call[c].doc.kv["minzoom"])
            /\ IsNumber(call[c].doc.kv["maxzoom"])
            /\ NumberOf(call[c].doc.kv["minzoom"]) <= NumberOf(call[c].doc.kv["maxzoom"])

\* C11 as amended: every document returned without error holds minzoom and
\* maxzoom; when the rows do not supply both, the two are integers taken from
\* the tile relation with minzoom <= maxzoom (0 and 0 when it is empty); when
\* the rows supply both, the document holds them as supplied, unordered or not.
C11_ZoomsOrderedWhenDerived ==
    \A c \in Calls :
        ReturnsDocument(c) =>
            LET rows == AfterRows(Content(call[c].con))
                doc  == call[c].doc
            IN  /\ Has(doc, "minzoom") /\ Has(doc, "maxzoom")
                /\ IF Has(rows, "minzoom") /\ Has(rows, "maxzoom")
                   THEN /\ doc.kv["minzoom"] = rows.kv["minzoom"]
                        /\ doc.kv["maxzoom"] = rows.kv["maxzoom"]
                   ELSE /\ doc.kv["minzoom"].t = "int" /\ doc.kv["maxzoom"].t = "int"
                        /\ doc.kv["minzoom"].v <= doc.kv["maxzoom"].v
                        /\ Zooms(Content(call[c].con)) = {} =>
                              (doc.kv["minzoom"].v = 0 /\ doc.kv["maxzoom"].v = 0)

\* a document returned with the minzoom of the rows above their maxzoom
C11_Witness ==
    \E c \in Calls :
        /\ ReturnsDocument(c)
        /\ IsNumber(call[c].doc.kv["minzoom"]) /\ IsNumber(call[c].doc.kv["maxzoom"])
        /\ NumberOf(call[c].doc.kv["minzoom"]) > NumberOf(call[c].doc.kv["maxzoom"])

\* the json rows of a database whose value is a JSON value other than an object
NonObjectKinds == {"array", "str", "num", "bool", "null"}

HasNonObjectJSON(content) ==
    \E i \in 1..Len(SelectMetadata(content)) :
        /\ SelectMetadata(content)[i].name = "json"
        /\ JSONKind(SelectMetadata(content)[i].value) \in NonObjectKinds

\* C12: a json row whose value is an array, a string, a number, a boolean or
\* null makes ReadMetadata return a parse error and no document (the engine
\* reporting no error of its own); it neither succeeds nor panics.
C12_NonObjectJSONFails ==
    \A c \in Calls :
        (/\ Returning(c)
         /\ call[c].op = "ReadMetadata"
         /\ call[c].con # 0
         /\ call[c].ret \notin {"errEngine", "errConn"}
         /\ HasNonObjectJSON(Content(call[c].con)))
            => (call[c].ret = "errParse" /\ call[c].doc = NilMap)

\* the keys of a JSON object and the value it gives a key (the last member
\* of that name)
ObjectKeys(toks) == {toks[2 + 4 * i].s : i \in 0..((Len(toks) - 1) \div 4 - 1)}

ObjectValue(toks, key) ==
    LET last == CHOOSE i \in 0..((Len(toks) - 1) \div 4 - 1) :
                    /\ toks[2 + 4 * i].s = key
                    /\ \A j \in 0..((Len(toks) - 1) \div 4 - 1) :
                          toks[2 + 4 * j].s = key => j <= i
    IN  JSONVal(toks[4 + 4 * last])

IsObjectRow(row) == row.name = "json" /\ JSONKind(row.value) = "object"

\* the document when the first i rows have been processed
DocAfter(rows, i) == scanRows(SubSeq(rows, 1, i), EmptyMap).m

\* a row after row i that is named `key`, or is a json object naming it
LaterRowWrites(rows, i, key) ==
    \E j \in (i + 1)..Len(rows) :
        \/ rows[j].name = key
        \/ IsObjectRow(rows[j]) /\ key \in ObjectKeys(rows[j].value)

\* a json row after row i that holds null
LaterNull(rows, i) ==
    \E j \in (i + 1)..Len(rows) :
        rows[j].name = "json" /\ JSONKind(rows[j].value) = "null"

\* the supplement overwrites the zoom keys unless the rows supply both
SupplementWrites(rows, key) ==
    /\ key \in {"minzoom", "maxzoom"}
    /\ ~(Has(DocAfter(rows, Len(rows)), "minzoom") /\ Has(DocAfter(rows, Len(rows)), "maxzoom"))

\* C13 as claimed: for a json row holding an object, the document returned
\* holds every key of the object, and every key parsed from other rows that
\* the object does not name with its value unchanged, unless a later row of
\* that name overwrote it.
C13_JSONMergeKeepsKeys ==
    \A c \in Calls :
        ReturnsDocument(c) =>
            LET rows == SelectMetadata(Content(call[c].con))
                doc  == call[c].doc
            IN  \A i \in 1..Len(rows) :
                    IsObjectRow(rows[i]) =>
                        /\ \A k \in ObjectKeys(rows[i].value) :
                              ~LaterRowWrites(rows, i, k) =>
                                  (Has(doc, k) /\ doc.kv[k] = ObjectValue(rows[i].value, k))
                        /\ \A k \in (DOMAIN DocAfter(rows, i - 1).kv) \ ObjectKeys(rows[i].value) :
                              ~LaterRowWrites(rows, i, k) =>
                                  (Has(doc, k) /\ doc.kv[k] = DocAfter(rows, i - 1).kv[k])

\* C13 as amended: the merge of a json object adds or overwrites the keys of
\* the object in the document built so far and drops none; the document
\* returned holds these keys and the earlier ones with these values, unless
\* a later row wrote the key (a row of that name, a json object naming it, or
\* a json null, which empties the document) or the key is minzoom or maxzoom
\* and the rows do not supply both, so that the supplement overwrote it.
C13_JSONMergeUnlessRewritten ==
    \A c \in Calls :
        ReturnsDocument(c) =>
            LET rows == SelectMetadata(Content(call[c].con))
                doc  == call[c].doc
            IN  \A i \in 1..Len(rows) :
                    IsObjectRow(rows[i]) =>
                        LET before == DocAfter(rows, i - 1)
                            after  == DocAfter(rows, i)
                            keys   == ObjectKeys(rows[i].value)
                        IN  /\ (DOMAIN before.kv) \cup keys = DOMAIN after.kv
                            /\ \A k \in keys : after.kv[k] = ObjectValue(rows[i].value, k)
                            /\ \A k \in (DOMAIN before.kv) \ keys : after.kv[k] = before.kv[k]
                            /\ \A k \in DOMAIN after.kv :
                                  (/\ ~LaterRowWrites(rows, i, k)
                                   /\ ~LaterNull(rows, i)
                                   /\ ~SupplementWrites(rows, k))
                                      => (Has(doc, k) /\ doc.kv[k] = after.kv[k])

\* a document returned after a json object overwrote one earlier key and
\* left another alone
C13_Witness ==
    \E c \in Calls :
        /\ ReturnsDocument(c)
        /\ LET rows == SelectMetadata(Content(call[c].con))
           IN  \E i \in 1..Len(rows) :
                   /\ IsObjectRow(rows[i])
                   /\ (DOMAIN DocAfter(rows, i - 1).kv) \cap ObjectKeys(rows[i].value) # {}
                   /\ (DOMAIN DocAfter(rows, i - 1).kv) \ ObjectKeys(rows[i].value) # {}
                   /\ \E k \in ObjectKeys(rows[i].value) : call[c].doc.kv[k] = ObjectValue(rows[i].value, k)

\* the components of a comma-separated value, spaces around them removed
Components(value) ==
    [i \in 1..Len(Split(value, ",")) |-> TrimSpace(Split(value, ",")[i])]

\* a bounds or center row with a component, at any position, that is no float
HasBadFloats(rows) ==
    \E i \in 1..Len(rows) :
        /\ rows[i].name \in {"bounds", "center"}
        /\ \E j \in 1..Len(Components(rows[i].value)) :
              ~ParseFloat(Components(rows[i].value)[j]).ok

\* a ReadMetadata that acquired a session, at its return statement, with no
\* error of the engine
AtReturn(c) ==
    /\ Returning(c)
    /\ call[c].op = "ReadMetadata"
    /\ call[c].con # 0
    /\ call[c].ret \notin {"errEngine", "errConn"}

\* what ReadMetadata hands to its return statement for bounds and center: the
\* floats of all components in their order, or an error and no document
FloatsAtReturn(c) ==
    LET rows == SelectMetadata(Content(call[c].con))
        doc  == call[c].doc
    IN  /\ HasBadFloats(rows) => (call[c].ret = "errParse" /\ doc = NilMap)
        /\ call[c].ret = "ok" =>
              \A i \in 1..Len(rows) :
                  (/\ rows[i].name \in {"bounds", "center"}
                   /\ ~LaterRowWrites(rows, i, rows[i].name)
                   /\ ~LaterNull(rows, i))
                      => /\ Has(doc, rows[i].name)
                         /\ doc.kv[rows[i].name].t = "floats"
                         /\ Len(doc.kv[rows[i].name].v) = Len(Components(rows[i].value))
                         /\ \A j \in 1..Len(Components(rows[i].value)) :
                               doc.kv[rows[i].name].v[j] =
                                   ParseFloat(Components(rows[i].value)[j]).v
                         /\ rows[i].value = BoundsRow.value =>
                               doc.kv[rows[i].name].v =
                                   << [num |-> -1, scale |-> 0],
                                      [num |-> 25, scale |-> 1],
                                      [num |-> 3, scale |-> 0] >>

\* C14: a bounds or center row yields its components as floats in their
\* order ("-1.0, 2.5,3" gives [-1.0, 2.5, 3.0]); if a component at any
\* position is no float, the caller receives an error and no document: the
\* return statement holds them and the deferred calls let the call return.
C14_FloatListOrError ==
    \A c \in Calls :
        AtReturn(c) =>
            /\ FloatsAtReturn(c)
            /\ HasBadFloats(SelectMetadata(Content(call[c].con))) => ENABLED Return(c)

\* C15: when the journal of the path exists, or the path does not, Open and
\* OpenInMemory return a path error and no handle, and no engine connection
\* and no pool has been opened when they return.
C15_PathErrorsBeforeAnySession ==
    [][(opener.pc = "idle" /\ opener'.pc # "idle" /\ (fs.journal \/ ~fs.exists))
          => /\ opener'.pc = "returned"
             /\ opener'.err = (IF fs.exists THEN "errJournal" ELSE "errPath")
             /\ db'.nil
             /\ \A e \in EngIds : eng'[e] = NoEng
             /\ pool' = NoPool
             /\ probe' = 0]_vars

\* OpenInMemory has returned the journal error
C15_Witness ==
    /\ opener.pc = "returned"
    /\ opener.kind = "OpenInMemory"
    /\ opener.err = "errJournal"
    /\ fs.journal /\ fs.exists

\* the errors with which the backup part of OpenInMemory fails
BackupErrors == {"errCapability", "errBackup", "errStep", "errCommit"}

\* C16: bck.Commit is called only when a copy step has reported completion
\* (all pages are copied), and at most once; after a failed step, a missing
\* backup capability or a failed commit no commit follows, OpenInMemory
\* returns an error and no handle, and no pool leads to the in-memory
\* database; a handle on it exists only over the complete copy.
C16_CommitAfterCompletion ==
    [][/\ opener'.commits # opener.commits =>
             /\ opener.commits = 0 /\ opener'.commits = 1
             /\ opener.pc = "backup" /\ opener.err = "none"
             /\ ~opener.more /\ mem = Pages
       /\ opener'.err \in BackupErrors =>
             /\ opener'.pc = "returned"
             /\ db'.nil /\ pool' = NoPool
             /\ opener'.commits = (IF opener'.err = "errCommit" THEN 1 ELSE 0)
       /\ (db'.pool = "pool" /\ pool'.kind = "mem") =>
             (mem' = Pages /\ opener'.commits = 1)]_vars

\* a copy step failed after a part of the pages had been copied
C16_Witness ==
    /\ opener.pc = "returned"
    /\ opener.err = "errStep"
    /\ mem # {} /\ mem # Pages

\* the tile getTileFormatAndSize samples: the first of the tile relation
SampledTile ==
    IF Len(Datasets[dataset].tiles) = 0 THEN <<>>
    ELSE Datasets[dataset].tiles[1].tile_data

\* Open or OpenInMemory has returned after sniffing the sampled tile
Sniffed == opener.pc = "returned" /\ opener.err \in {"none", "errFormat"}

\* C17: the format of a handle is PNG, JPG, WEBP, PBF or UNKNOWN, never
\* GZIP; when the sniffer classifies the sampled tile as GZIP, the handle's
\* format is PBF and detectTileSize was called with PBF.
C17_GZIPFoldedToPBF ==
    /\ db.format \in {"PNG", "JPG", "WEBP", "PBF", "UNKNOWN"}
    /\ opener.sizedAs # "GZIP"
    /\ (Sniffed /\ detectTileFormat(SampledTile).format = "GZIP") =>
          /\ opener.sizedAs = "PBF"
          /\ ~db.nil => db.format = "PBF"

\* OpenInMemory has returned a handle on a dataset whose first tile is gzipped
C17_Witness ==
    /\ Sniffed
    /\ opener.kind = "OpenInMemory"
    /\ db.pool = "pool"
    /\ detectTileFormat(SampledTile).format = "GZIP"

\* C18: a read whose caller's cancellation signal fired while it waited for
\* a session or executed its query returns a cancellation error.
C18_CancellationAborts ==
    \A c \in Calls :
        (Returning(c) /\ call[c].con # 0 /\ call[c].cancelled)
            => call[c].ret = "errCancelled"

\* C19: every ReadMetadata that has reached its return statement, with a
\* document or an error, eventually returns to its caller; the deferred
\* release does not wait forever on a row cursor left open by a failed
\* coercion.
C19_ReadMetadataReturns ==
    \A c \in Calls :
        (call[c].pc = "defer" /\ call[c].op = "ReadMetadata") ~> (call[c].pc = "idle")

\* C20: on a handle returned by Open or OpenInMemory, with no read in
\* flight, no session is checked out of the pool: the session the opener
\* used for validation and probing has been released.
C20_ProbingSessionReleased ==
    (opener.pc = "returned" /\ opener.err = "none" /\ InFlight = {}) =>
        /\ probe = 0
        /\ ~pool.closed =>
              \A e \in OpenEngines : \E i \in 1..Len(pool.freeConn) : pool.freeConn[i] = e

====
